---- MODULE Spec2Model ----
(***************************************************************************)
(* Model of the Turso n8n node: the execute() method of the two-operation  *)
(* node (src/nodes/Turso/Turso.node.ts) and of the eight-operation node    *)
(* (src/package.json, class Turso), one step per await of the database     *)
(* client.                                                                 *)
(*                                                                         *)
(* Texts (SQL, where-clauses, messages) are sequences of tokens; " " is    *)
(* the whitespace token and "?" the positional placeholder.  Template      *)
(* literals are concatenations of token sequences.                         *)
(***************************************************************************)
EXTENDS Integers, Sequences, FiniteSets, TLC

\* ------------------------------------------------------------------ bounds
MaxItems == 2      \* input work items per invocation
MaxBatch == 2      \* entries of an executeBatch query list
MaxValues == 2     \* manually entered values of insertRows / updateRows
MaxColumns == 2    \* column descriptors of a raw client result

\* ------------------------------------------------------------- JS helpers
Undefined == "<undefined>"
NoPairedItem == -1

IsWhitespace(tok) == tok = " "

RECURSIVE TrimStart(_)
TrimStart(s) ==
    IF s = <<>> THEN <<>>
    ELSE IF IsWhitespace(Head(s)) THEN TrimStart(Tail(s)) ELSE s

RECURSIVE TrimEnd(_)
TrimEnd(s) ==
    IF s = <<>> THEN <<>>
    ELSE IF IsWhitespace(s[Len(s)]) THEN TrimEnd(SubSeq(s, 1, Len(s) - 1)) ELSE s

\* String.prototype.trim
Trim(s) == TrimEnd(TrimStart(s))

\* the guard  !s || s.trim() === ''
IsBlank(s) == s = <<>> \/ Trim(s) = <<>>

\* Array.prototype.join(', ') over a list of texts
RECURSIVE JoinTexts(_)
JoinTexts(texts) ==
    IF texts = <<>> THEN <<>>
    ELSE IF Len(texts) = 1 THEN texts[1]
    ELSE texts[1] \o <<",", " ">> \o JoinTexts(Tail(texts))

\* join(', ') over a list of names (one token each)
JoinComma(names) == JoinTexts([j \in 1..Len(names) |-> <<names[j]>>])

\* the characters of a text as one string value
RECURSIVE Flatten(_)
Flatten(s) == IF s = <<>> THEN "" ELSE Head(s) \o Flatten(Tail(s))

\* String.prototype.split(',') : the pieces between the "," tokens
RECURSIVE SplitComma(_, _)
SplitComma(s, piece) ==
    IF s = <<>> THEN <<piece>>
    ELSE IF Head(s) = "," THEN <<piece>> \o SplitComma(Tail(s), <<>>)
    ELSE SplitComma(Tail(s), Append(piece, Head(s)))

\* obj[name] on a record-like object
Get(obj, name) == IF name \in DOMAIN obj THEN obj[name] ELSE Undefined

\* array.map(param => param.value) : the values in the order given
MapValue(list) == [j \in 1..Len(list) |-> list[j].value]

\* ----------------------------------------------------------- operations
Operations2 == {"executeQuery", "executeBatch"}
Operations8 == {"executeQuery", "executeBatch", "insertRows", "selectRows",
                "updateRows", "deleteRows", "listTables", "describeTable"}

OperationsOf(v) == IF v = "two" THEN Operations2 ELSE Operations8

\* --------------------------------------------------------------- inputs
\* Node parameters of one work item, with the defaults of the property
\* definitions.
DefaultParams ==
    [query |-> <<>>, queryParams |-> <<>>, queries |-> <<>>,
     table |-> <<>>, columns |-> <<>>, dataSource |-> "inputItems",
     values |-> <<>>, itemsPath |-> "data",
     whereClause |-> <<>>, whereParams |-> <<>>,
     selectAllColumns |-> FALSE, useWhere |-> FALSE,
     whereClauseSelect |-> <<>>, whereParamsSelect |-> <<>>,
     useOrderBy |-> FALSE, orderBy |-> <<>>, orderDirection |-> "ASC",
     useLimit |-> FALSE, limit |-> 100, offset |-> 0]

Q1 == <<"SELECT", " ", "1">>
Q2 == <<"DELETE", " ", "?", " ", "?">>
BlankTexts == {<<>>, <<" ">>}
WhereText == <<"id", " ", "=", " ", "?">>
\* table names, character by character: blank, plain, and crafted
TableChoices == BlankTexts \cup {<<"t">>, <<"t", "_", "1">>, <<"t", ")", ";">>}
ColumnChoices == {<<"id">>, <<"id", "name">>}
ParamChoices == {<<>>, <<[value |-> "w1"], [value |-> "w2"]>>}

\* n manually entered values "1", "2", ... (distinct, so an order shows)
ValueItems(n) == [j \in 1..n |-> [value |-> ToString(j)]]

EmptyEntry == [query |-> <<>>, parameters |-> <<>>]
\* entries alternate between a query without and a query with parameters
ValidEntry(j) ==
    IF j % 2 = 1 THEN [query |-> Q1, parameters |-> <<>>]
    ELSE [query |-> Q2, parameters |-> <<"1", ",", " ", "2">>]
\* query lists of up to n entries without an empty query, and the lists of n
\* entries of which one has an empty query
BatchLists(n) ==
    {[j \in 1..len |-> ValidEntry(j)] : len \in 0..n}
    \cup {[j \in 1..n |-> IF j = e THEN EmptyEntry ELSE ValidEntry(j)] : e \in 1..n}

\* Input items: json carries scalar fields of its own and possibly a "data"
\* property holding an array of records or a scalar.
Rec2 == [id |-> "r2", name |-> "b"]
Rec3 == [id |-> "r3"]
NoFields == [n \in {} |-> ""]
ArrayItem == [own |-> NoFields, data |-> [t |-> "arr", recs |-> <<Rec2, Rec3>>]]
ScalarItem == [own |-> NoFields, data |-> [t |-> "str", recs |-> <<>>]]
PlainItem == [own |-> [id |-> "r4", name |-> "d"], data |-> [t |-> "undef", recs |-> <<>>]]

CarriesData(its) == \E n \in 1..Len(its) : its[n] # PlainItem

\* Manual values are entered for invocations whose items carry no data of
\* their own; items that carry records are read with the input-items source.
ManualInsertParams ==
    {[DefaultParams EXCEPT !.table = t] : t \in BlankTexts}
    \cup {[DefaultParams EXCEPT !.table = <<"t">>]}
    \cup {[DefaultParams EXCEPT !.table = <<"t">>, !.columns = c,
                                !.dataSource = "manualInput",
                                !.values = ValueItems(n)] :
             c \in ColumnChoices, n \in 0..MaxValues}

ManualUpdateParams ==
    {[DefaultParams EXCEPT !.table = <<" ">>],
     [DefaultParams EXCEPT !.table = <<"t">>],
     [DefaultParams EXCEPT !.table = <<"t">>, !.columns = <<"id">>, !.whereClause = <<" ">>]}
    \cup {[DefaultParams EXCEPT !.table = <<"t">>, !.columns = c,
                                !.whereClause = WhereText,
                                !.whereParams = IF Len(c) = 1 THEN <<>>
                                                ELSE <<[value |-> "w1"], [value |-> "w2"]>>,
                                !.dataSource = "manualInput",
                                !.values = ValueItems(n)] :
             c \in ColumnChoices, n \in 0..MaxValues}

InputItemsParams ==
    {[DefaultParams EXCEPT !.table = <<"t">>, !.columns = <<"id", "name">>,
                           !.whereClause = WhereText,
                           !.whereParams = <<[value |-> "w1"], [value |-> "w2"]>>,
                           !.itemsPath = ip] : ip \in {"data", ""}}

\* the columns of table t, as getColumns loads them for the column pickers
KnownColumns == {"id", "name"}

SelectSome == [DefaultParams EXCEPT !.table = <<"t">>, !.columns = <<"id">>]
SelectAll == [DefaultParams EXCEPT !.table = <<"t">>, !.selectAllColumns = TRUE]
SelectParams ==
    {[DefaultParams EXCEPT !.table = <<>>],
     [DefaultParams EXCEPT !.table = <<"t">>],
     SelectAll,
     [SelectAll EXCEPT !.columns = <<"id">>, !.useOrderBy = TRUE,
                       !.orderBy = <<"id">>, !.orderDirection = "DESC"],
     [SelectAll EXCEPT !.useOrderBy = TRUE],
     [SelectAll EXCEPT !.useOrderBy = TRUE, !.orderBy = <<"other">>],
     [SelectAll EXCEPT !.useOrderBy = TRUE, !.orderBy = <<"id">>,
                       !.orderDirection = "SIDEWAYS"],
     [SelectSome EXCEPT !.columns = <<"id", "name">>, !.useWhere = TRUE],
     [SelectSome EXCEPT !.useWhere = TRUE, !.whereClauseSelect = WhereText,
                        !.whereParamsSelect = <<[value |-> "w1"]>>, !.offset = 5],
     [SelectSome EXCEPT !.columns = <<"id", "name">>,
                        !.useWhere = TRUE, !.whereClauseSelect = WhereText,
                        !.whereParamsSelect = <<[value |-> "w1"]>>,
                        !.useOrderBy = TRUE, !.orderBy = <<"name">>,
                        !.useLimit = TRUE, !.limit = 10, !.offset = 5]}
    \cup {[SelectSome EXCEPT !.useLimit = TRUE, !.limit = l, !.offset = o] :
             <<l, o>> \in {<<0, 0>>, <<10, 0>>, <<10, -1>>}}

ParamSet(op, its) ==
    CASE op = "executeQuery" ->
           {[DefaultParams EXCEPT !.query = q] : q \in BlankTexts}
           \cup {[DefaultParams EXCEPT !.query = Q2, !.queryParams = a] : a \in ParamChoices}
      [] op = "executeBatch" ->
           {[DefaultParams EXCEPT !.queries = qs] : qs \in BatchLists(MaxBatch)}
      [] op = "insertRows" ->
           InputItemsParams \cup (IF CarriesData(its) THEN {} ELSE ManualInsertParams)
      [] op = "updateRows" ->
           InputItemsParams \cup (IF CarriesData(its) THEN {} ELSE ManualUpdateParams)
      [] op = "deleteRows" ->
           {[DefaultParams EXCEPT !.table = <<>>],
            [DefaultParams EXCEPT !.table = <<" ">>, !.whereClause = WhereText],
            [DefaultParams EXCEPT !.table = <<"t">>, !.whereClause = <<" ">>]}
           \cup {[DefaultParams EXCEPT !.table = <<"t">>, !.whereClause = WhereText,
                                       !.whereParams = w] : w \in ParamChoices}
      [] op = "selectRows" -> SelectParams
      [] op = "listTables" -> {DefaultParams}
      [] op = "describeTable" ->
           {[DefaultParams EXCEPT !.table = t] : t \in TableChoices}

\* Only insertRows and updateRows read the items' json: they also get item
\* lists that carry data, a of them an array of records and the rest a scalar.
ItemsFor(op) ==
    {[j \in 1..n |-> PlainItem] : n \in 1..MaxItems}
    \cup (IF op \in {"insertRows", "updateRows"}
          THEN {[j \in 1..n |-> IF j <= a THEN ArrayItem ELSE ScalarItem] :
                   n \in 1..MaxItems, a \in 0..MaxItems}
          ELSE {})

\* ------------------------------------------------------ result normalizer
\* A raw client result: every field is optional (<<>> absent, <<v>> present);
\* a column is a plain string or an object with a name field.
\* a coalescing that reads the name field of every descriptor
ColumnNameOfObject(column) == IF column.t = "string" THEN Undefined ELSE column.name

ColumnName(column) == IF column.t = "string" THEN column.s ELSE column.name

\* result.columns?.map(...) || []
ColumnNames(result) ==
    IF result.columns = <<>> THEN <<>>
    ELSE [c \in 1..Len(result.columns[1]) |-> ColumnName(result.columns[1][c])]

\* result.rows || []
RowsOrEmpty(result) == IF result.rows = <<>> THEN <<>> ELSE result.rows[1]

ProcessedResult(result) ==
    [columns |-> ColumnNames(result), rows |-> RowsOrEmpty(result),
     rowsAffected |-> result.rowsAffected, lastInsertRowid |-> result.lastInsertRowid]

\* what one resolved statement contributes to responseData
Reshape(v, op, result) ==
    IF v = "two" \/ op \in {"executeQuery", "executeBatch"} THEN ProcessedResult(result)
    ELSE CASE op = "insertRows" -> [rowsAffected |-> result.rowsAffected,
                                    lastInsertRowid |-> result.lastInsertRowid]
           [] op = "updateRows" -> [rowsAffected |-> result.rowsAffected]
           [] op = "deleteRows" -> [rowsAffected |-> result.rowsAffected]
           [] op = "selectRows" -> [columns |-> ColumnNames(result),
                                    rows |-> RowsOrEmpty(result)]
           [] op = "listTables" ->
                [tables |-> [r \in 1..Len(RowsOrEmpty(result)) |->
                                Get(RowsOrEmpty(result)[r], "name")]]
           [] op = "describeTable" -> [columns |-> RowsOrEmpty(result)]

MultiStatement(op) == op \in {"executeBatch", "insertRows", "updateRows"}

RawResults ==
    {[columns |-> << <<[t |-> "object", name |-> "id"], [t |-> "string", s |-> "name"]>> >>,
      rows |-> << <<[name |-> "t"]>> >>, rowsAffected |-> <<0>>, lastInsertRowid |-> <<>>],
     [columns |-> <<>>, rows |-> <<>>, rowsAffected |-> <<1>>, lastInsertRowid |-> <<"7">>]}

\* ------------------------------------------------------------------ errors
NodeOperationError(cause, message) ==
    [type |-> "NodeOperationError", cause |-> cause, message |-> message]

ClientErrors ==
    {[type |-> "LibsqlError", cause |-> "client", message |-> <<"SQLITE_CONSTRAINT">>],
     [type |-> "Error", cause |-> "client", message |-> <<"connection", " ", "refused">>],
     [type |-> "Error", cause |-> "client", message |-> <<"timeout">>],
     [type |-> "NotAnError", cause |-> "client", message |-> <<Undefined>>]}

\* The behaviours of the client within one invocation: what it returns when
\* it resolves a statement and what it throws when it rejects one.
ClientProfiles ==
    {<<r, e>> : r \in RawResults, e \in ClientErrors} \ 
       {<<r, e>> \in RawResults \X ClientErrors :
            (r.columns = <<>>) # (e.type = "Error")}

\* error.message.includes('connection')
IncludesConnection(message) == \E t \in 1..Len(message) : message[t] = "connection"

handleDatabaseError(error, opLabel) ==
    IF error.type = "LibsqlError"
    THEN NodeOperationError("client",
            <<"Database error in \"">> \o opLabel \o <<"\": ">> \o error.message)
    ELSE IF error.type = "Error" /\ IncludesConnection(error.message)
    THEN NodeOperationError("client",
            <<"Connection error: ">> \o error.message
               \o <<". Please check your credentials and database URL.">>)
    ELSE IF error.type = "Error"
    THEN NodeOperationError("client",
            <<"Error in \"">> \o opLabel \o <<"\": ">> \o error.message)
    ELSE NodeOperationError("client", <<"Unknown error in \"">> \o opLabel \o <<"\"">>)

\* the operation argument of each handleDatabaseError call
OpLabel(op, sql) ==
    CASE op = "executeQuery" -> <<"Execute Query">>
      [] op = "executeBatch" -> <<"Execute Batch - Query: ">> \o sql
      [] op = "insertRows" -> <<"Insert Rows">>
      [] op = "updateRows" -> <<"Update Rows">>
      [] op = "deleteRows" -> <<"Delete Rows">>
      [] op = "selectRows" -> <<"Select Rows">>
      [] op = "listTables" -> <<"List Tables">>
      [] op = "describeTable" -> <<"Describe Table">>

\* the error that reaches the catch block of the item loop when the client
\* rejects a statement: the two-operation node does not wrap it
RejectionError(v, op, sql, error) ==
    IF v = "two" THEN error ELSE handleDatabaseError(error, OpLabel(op, sql))

\* ------------------------------------------------------ statement builder
Stmt(sql, args) == [sql |-> sql, args |-> args]
Ok(plan) == [err |-> <<>>, plan |-> plan]
Fail(message) == [err |-> <<NodeOperationError("validation", message)>>, plan |-> <<>>]

\* parameters ? parameters.split(',').map(p => p.trim()) : []
BatchArgs(parameters) ==
    IF parameters = <<>> THEN <<>>
    ELSE LET pieces == SplitComma(parameters, <<>>)
         IN  [j \in 1..Len(pieces) |-> Flatten(Trim(pieces[j]))]

BatchPlan(queries) ==
    [j \in 1..Len(queries) |-> Stmt(queries[j].query, BatchArgs(queries[j].parameters))]

\* a slice that stops one value early
ChunkRowsShort(values, valuesPerRow) ==
    [r \in 1..((Len(values) + valuesPerRow - 1) \div valuesPerRow) |->
        SubSeq(values, (r - 1) * valuesPerRow + 1, r * valuesPerRow - 1)]

\* for (let j = 0; j < values.length; j += valuesPerRow) values.slice(j, j + valuesPerRow)
ChunkRows(values, valuesPerRow) ==
    [r \in 1..((Len(values) + valuesPerRow - 1) \div valuesPerRow) |->
        SubSeq(values, (r - 1) * valuesPerRow + 1,
               IF r * valuesPerRow < Len(values) THEN r * valuesPerRow ELSE Len(values))]

\* rowData of one input item: item.json[itemsPath], or item.json itself
RowData(item, itemsPath) ==
    IF itemsPath # "" THEN item.data ELSE [t |-> "obj", recs |-> <<item.own>>]

\* columnNames.map(name => entry[name])
ExtractRow(entry, columnNames) ==
    [c \in 1..Len(columnNames) |-> Get(entry, columnNames[c])]

\* the rows one input item contributes (an array of records: one row each;
\* a record: one row; anything else: none)
RowsOfItem(item, itemsPath, columnNames) ==
    LET rowData == RowData(item, itemsPath)
    IN  [r \in 1..Len(rowData.recs) |-> ExtractRow(rowData.recs[r], columnNames)]

\* for (const item of items) { ... rows.push(row) }
RECURSIVE InputRows(_, _, _)
InputRows(its, itemsPath, columnNames) ==
    IF its = <<>> THEN <<>>
    ELSE RowsOfItem(Head(its), itemsPath, columnNames)
            \o InputRows(Tail(its), itemsPath, columnNames)

PathMissing(its, itemsPath) ==
    \E n \in 1..Len(its) : RowData(its[n], itemsPath).t = "undef"

\* the where-arguments put in front of the row values
UpdateArgsWhereFirst(row, whereArgs) == whereArgs \o row

\* rows.push([...row, ...whereArgs])
UpdateArgs(row, whereArgs) == row \o whereArgs

\* an INSERT with a single placeholder whatever the number of columns
InsertSqlOnePlaceholder(table, columnNames) ==
    <<"INSERT INTO ">> \o table \o <<" (">> \o JoinComma(columnNames)
        \o <<") VALUES (">> \o <<"?">> \o <<")">>

InsertSql(table, columnNames) ==
    <<"INSERT INTO ">> \o table \o <<" (">> \o JoinComma(columnNames)
        \o <<") VALUES (">> \o JoinComma([c \in 1..Len(columnNames) |-> "?"]) \o <<")">>

UpdateSql(table, columnNames, whereClause) ==
    <<"UPDATE ">> \o table \o <<" SET ">>
        \o JoinTexts([c \in 1..Len(columnNames) |-> <<columnNames[c], " = ", "?">>])
        \o <<" WHERE ">> \o whereClause

\* a DELETE that leaves the where-clause out
DeleteSqlNoWhere(table, whereClause) == <<"DELETE FROM ">> \o table

DeleteSql(table, whereClause) == <<"DELETE FROM ">> \o table \o <<" WHERE ">> \o whereClause

ListTablesSql ==
    <<"SELECT name FROM sqlite_master WHERE type='table' AND name NOT LIKE 'sqlite_%'">>

DescribeSql(table) == <<"PRAGMA table_info(">> \o table \o <<")">>

PrepExecuteQuery(p) ==
    IF IsBlank(p.query) THEN Fail(<<"SQL query cannot be empty">>)
    ELSE Ok(<<Stmt(p.query, MapValue(p.queryParams))>>)

\* the entries' own queries are checked one by one inside the loop
PrepExecuteBatch(p) ==
    IF Len(p.queries) = 0
    THEN Fail(<<"At least one query is required for batch execution">>)
    ELSE Ok(BatchPlan(p.queries))

PrepInsertRows(p, its) ==
    IF IsBlank(p.table) THEN Fail(<<"Table name cannot be empty">>)
    ELSE IF Len(p.columns) = 0 THEN Fail(<<"At least one column must be selected">>)
    ELSE IF p.dataSource = "manualInput"
    THEN IF Len(p.values) = 0 THEN Fail(<<"No values provided for insert operation">>)
         ELSE IF Len(p.values) % Len(p.columns) # 0
         THEN Fail(<<"Values count (", ToString(Len(p.values)),
                     ") is not a multiple of columns count (",
                     ToString(Len(p.columns)), ")">>)
         ELSE LET rows == ChunkRows(MapValue(p.values), Len(p.columns))
              IN  Ok([r \in 1..Len(rows) |-> Stmt(InsertSql(p.table, p.columns), rows[r])])
    ELSE IF PathMissing(its, p.itemsPath)
         THEN Fail(<<"Item path '", p.itemsPath, "' not found in input data">>)
         ELSE LET rows == InputRows(its, p.itemsPath, p.columns)
              IN  IF Len(rows) = 0 THEN Fail(<<"No data found to insert">>)
                  ELSE Ok([r \in 1..Len(rows) |->
                              Stmt(InsertSql(p.table, p.columns), rows[r])])

PrepUpdateRows(p, its) ==
    IF IsBlank(p.table) THEN Fail(<<"Table name cannot be empty">>)
    ELSE IF Len(p.columns) = 0 THEN Fail(<<"At least one column must be selected">>)
    ELSE IF IsBlank(p.whereClause)
    THEN Fail(<<"WHERE clause is required for update operations for safety">>)
    ELSE LET whereArgs == MapValue(p.whereParams)
             sql == UpdateSql(p.table, p.columns, p.whereClause)
         IN
         IF p.dataSource = "manualInput"
         THEN IF Len(p.values) = 0 THEN Fail(<<"No values provided for update operation">>)
              ELSE IF Len(p.values) % Len(p.columns) # 0
              THEN Fail(<<"Values count (", ToString(Len(p.values)),
                          ") is not a multiple of columns count (",
                          ToString(Len(p.columns)), ")">>)
              ELSE LET rows == ChunkRows(MapValue(p.values), Len(p.columns))
                   IN  Ok([r \in 1..Len(rows) |-> Stmt(sql, UpdateArgs(rows[r], whereArgs))])
         ELSE IF PathMissing(its, p.itemsPath)
              THEN Fail(<<"Item path '", p.itemsPath, "' not found in input data">>)
              ELSE LET rows == InputRows(its, p.itemsPath, p.columns)
                   IN  IF Len(rows) = 0 THEN Fail(<<"No data found to update">>)
                       ELSE Ok([r \in 1..Len(rows) |->
                                   Stmt(sql, UpdateArgs(rows[r], whereArgs))])

PrepDeleteRows(p) ==
    IF IsBlank(p.table) THEN Fail(<<"Table name cannot be empty">>)
    ELSE IF IsBlank(p.whereClause)
    THEN Fail(<<"WHERE clause is required for delete operations for safety">>)
    ELSE Ok(<<Stmt(DeleteSql(p.table, p.whereClause), MapValue(p.whereParams))>>)

\* a column clause that prefers the selected columns to the wildcard
ColumnsListPreferSelected(p) ==
    IF p.selectAllColumns /\ p.columns = <<>> THEN <<"*">> ELSE JoinComma(p.columns)

\* columnsList = selectAllColumns ? '*' : selectedColumns.join(', ')
ColumnsList(p) == IF p.selectAllColumns THEN <<"*">> ELSE JoinComma(p.columns)

\* a clause that writes OFFSET whenever a limit is used
LimitOffsetClauseAlways(p) ==
    IF p.useLimit
    THEN <<" LIMIT ", ToString(p.limit)>> \o <<" OFFSET ", ToString(p.offset)>>
    ELSE <<>>

\* ` LIMIT ${limit}`, then ` OFFSET ${offset}` if offset > 0
LimitOffsetClause(p) ==
    IF p.useLimit
    THEN <<" LIMIT ", ToString(p.limit)>>
            \o (IF p.offset > 0 THEN <<" OFFSET ", ToString(p.offset)>> ELSE <<>>)
    ELSE <<>>

PrepSelectRows(p) ==
    IF IsBlank(p.table) THEN Fail(<<"Table name cannot be empty">>)
    ELSE IF ~p.selectAllColumns /\ Len(p.columns) = 0
    THEN Fail(<<"At least one column must be selected">>)
    ELSE IF p.useWhere /\ IsBlank(p.whereClauseSelect)
    THEN Fail(<<"WHERE clause cannot be empty when \"Use Where Clause\" is enabled">>)
    ELSE IF p.useOrderBy /\ IsBlank(p.orderBy)
    THEN Fail(<<"Order by column must be selected when \"Use Order By\" is enabled">>)
    ELSE IF p.useLimit /\ p.limit <= 0
    THEN Fail(<<"Limit must be greater than 0">>)
    ELSE LET columnsList == ColumnsList(p)
             whereArgs == IF p.useWhere THEN MapValue(p.whereParamsSelect) ELSE <<>>
             orderByClause == IF p.useOrderBy
                              THEN <<" ORDER BY ">> \o p.orderBy \o <<" ", p.orderDirection>>
                              ELSE <<>>
             limitOffsetClause == LimitOffsetClause(p)
             query == <<"SELECT ">> \o columnsList \o <<" FROM ">> \o p.table
                         \o (IF p.useWhere THEN <<" WHERE ">> \o p.whereClauseSelect ELSE <<>>)
                         \o orderByClause \o limitOffsetClause
         IN  Ok(<<Stmt(query, whereArgs)>>)

PrepListTables == Ok(<<Stmt(ListTablesSql, <<>>)>>)

PrepDescribeTable(p) ==
    IF IsBlank(p.table) THEN Fail(<<"Table name cannot be empty">>)
    ELSE Ok(<<Stmt(DescribeSql(p.table), <<>>)>>)

\* Eight-operation node: everything an item does before its first statement.
Prepare8(op, p, its) ==
    CASE op = "executeQuery" -> PrepExecuteQuery(p)
      [] op = "executeBatch" -> PrepExecuteBatch(p)
      [] op = "insertRows" -> PrepInsertRows(p, its)
      [] op = "updateRows" -> PrepUpdateRows(p, its)
      [] op = "deleteRows" -> PrepDeleteRows(p)
      [] op = "selectRows" -> PrepSelectRows(p)
      [] op = "listTables" -> PrepListTables
      [] op = "describeTable" -> PrepDescribeTable(p)

\* Two-operation node: credentials are read inside the item loop and no
\* parameter is validated.
Prepare2(op, p, credsOk) ==
    IF ~credsOk
    THEN [err |-> <<NodeOperationError("credentials",
                       <<"Database URL and auth token are required">>)>>,
          plan |-> <<>>]
    ELSE IF op = "executeQuery" THEN Ok(<<Stmt(p.query, MapValue(p.queryParams))>>)
    ELSE Ok(BatchPlan(p.queries))

\* the check made on each entry inside the executeBatch loop
EntryInvalid(v, op, stmt) == v = "eight" /\ op = "executeBatch" /\ IsBlank(stmt.sql)

\* ------------------------------------------------------------------- state
VARIABLES
    variant,         \* "two": src/nodes/Turso/Turso.node.ts, "eight": src/package.json
    operation,       \* getNodeParameter('operation', 0)
    continueOnFail,  \* this.continueOnFail()
    credentialsOk,   \* credentials.databaseUrl && credentials.authToken
    items,           \* this.getInputData()
    clientResult,    \* what the client returns when it resolves a statement
    clientError,     \* what the client throws when it rejects a statement
    pc,              \* "start", "loop", "await", "done", "thrown"
    i,               \* index of the work item, from 0 as in the code
    params,          \* the parameters read for work item i
    plan,            \* the statements of work item i: queries / rows
    k,               \* position in plan of the statement awaited
    results,         \* results of the statements of work item i so far
    responseData,    \* declared outside the item loop
    returnData,
    output,          \* <<returnData>> once execute has returned
    thrown,          \* <<error>> once execute has thrown
    inflight,        \* statements handed to the client and not yet settled
    log              \* history of submissions, settlements, failures, appends

inputs == <<variant, operation, continueOnFail, credentialsOk, items,
            clientResult, clientError>>
vars == <<variant, operation, continueOnFail, credentialsOk, items, clientResult,
          clientError, pc, i, params,
          plan, k, results, responseData, returnData, output, thrown, inflight, log>>

NoStmt == Stmt(<<>>, <<>>)
NoError == [type |-> "", cause |-> "", message |-> <<>>]
Event(e, item, pos, err, stmt) ==
    [e |-> e, item |-> item, pos |-> pos, err |-> err, stmt |-> stmt]

\* the record appended for a failed item in continue-on-failure mode
ErrorRecord(v, item, err) ==
    [kind |-> "error", json |-> [error |-> err.message],
     pairedItem |-> IF v = "two" THEN item ELSE NoPairedItem, src |-> item]

\* returnJsonArray(responseData) without the spread, in both nodes
OutputRecordsUnspread(v, resp, item) ==
    IF resp.t = "arr"
    THEN [r \in 1..Len(resp.list) |->
             [kind |-> "result", json |-> resp.list[r], pairedItem |-> item, src |-> item]]
    ELSE <<[kind |-> "result", json |-> resp, pairedItem |-> item, src |-> item]>>

\* constructExecutionMetaData(returnJsonArray(...), { itemData: { item: i } })
\* two: returnJsonArray(responseData), one record per element of an array;
\* eight: returnJsonArray({ ...responseData }), always a single object
OutputRecords(v, resp, item) ==
    IF v = "two" /\ resp.t = "arr"
    THEN [r \in 1..Len(resp.list) |->
             [kind |-> "result", json |-> resp.list[r], pairedItem |-> item, src |-> item]]
    ELSE <<[kind |-> "result", json |-> resp, pairedItem |-> item, src |-> item]>>

\* every remaining statement handed to the client at once, none awaited
SubmitAllNow(pl, kk) == kk..Len(pl)

\* await client.execute(...) hands one statement to the client
SubmitNow(pl, kk) == {kk}

\* a catch block that ends the item loop after recording the error
CatchBreaks(err, pos, pl, infl, lg) ==
    /\ plan' = pl
    /\ inflight' = infl
    /\ UNCHANGED <<k, results, responseData>>
    /\ IF continueOnFail
       THEN /\ returnData' = Append(returnData, ErrorRecord(variant, i, err))
            /\ i' = Len(items)
            /\ pc' = "loop"
            /\ thrown' = thrown
            /\ log' = lg \o <<Event("fail", i, pos, err, NoStmt),
                              Event("append", i, 1, NoError, NoStmt)>>
       ELSE /\ thrown' = <<err>>
            /\ pc' = "thrown"
            /\ UNCHANGED <<returnData, i>>
            /\ log' = Append(lg, Event("fail", i, pos, err, NoStmt))

\* a catch block that never rethrows
CatchIgnoresFlag(err, pos, pl, infl, lg) ==
    /\ plan' = pl
    /\ inflight' = infl
    /\ UNCHANGED <<k, results, responseData>>
    /\ IF TRUE
       THEN /\ returnData' = Append(returnData, ErrorRecord(variant, i, err))
            /\ i' = i + 1
            /\ pc' = "loop"
            /\ thrown' = thrown
            /\ log' = lg \o <<Event("fail", i, pos, err, NoStmt),
                              Event("append", i, 1, NoError, NoStmt)>>
       ELSE /\ thrown' = <<err>>
            /\ pc' = "thrown"
            /\ UNCHANGED <<returnData, i>>
            /\ log' = Append(lg, Event("fail", i, pos, err, NoStmt))

\* a catch block that goes on without recording the error
CatchSilent(err, pos, pl, infl, lg) ==
    /\ plan' = pl
    /\ inflight' = infl
    /\ UNCHANGED <<k, results, responseData>>
    /\ IF continueOnFail
       THEN /\ returnData' = returnData
            /\ i' = i + 1
            /\ pc' = "loop"
            /\ thrown' = thrown
            /\ log' = Append(lg, Event("fail", i, pos, err, NoStmt))
       ELSE /\ thrown' = <<err>>
            /\ pc' = "thrown"
            /\ UNCHANGED <<returnData, i>>
            /\ log' = Append(lg, Event("fail", i, pos, err, NoStmt))

\* a catch block that also outputs the results gathered before the failure
CatchKeepsPartial(err, pos, pl, infl, lg) ==
    /\ plan' = pl
    /\ inflight' = infl
    /\ UNCHANGED <<k, results, responseData>>
    /\ IF continueOnFail
       THEN /\ returnData' = returnData \o OutputRecords(variant, [t |-> "arr", list |-> results], i)
                               \o <<ErrorRecord(variant, i, err)>>
            /\ i' = i + 1
            /\ pc' = "loop"
            /\ thrown' = thrown
            /\ log' = lg \o <<Event("fail", i, pos, err, NoStmt),
                              Event("append", i, 1, NoError, NoStmt)>>
       ELSE /\ thrown' = <<err>>
            /\ pc' = "thrown"
            /\ UNCHANGED <<returnData, i>>
            /\ log' = Append(lg, Event("fail", i, pos, err, NoStmt))

\* catch (error) { if (this.continueOnFail()) { push; continue; } throw error; }
Catch(err, pos, pl, infl, lg) ==
    /\ plan' = pl
    /\ inflight' = infl
    /\ UNCHANGED <<k, results, responseData>>
    /\ IF continueOnFail
       THEN /\ returnData' = Append(returnData, ErrorRecord(variant, i, err))
            /\ i' = i + 1
            /\ pc' = "loop"
            /\ thrown' = thrown
            /\ log' = lg \o <<Event("fail", i, pos, err, NoStmt),
                              Event("append", i, 1, NoError, NoStmt)>>
       ELSE /\ thrown' = <<err>>
            /\ pc' = "thrown"
            /\ UNCHANGED <<returnData, i>>
            /\ log' = Append(lg, Event("fail", i, pos, err, NoStmt))

\* the item's statements are done: build responseData and append the output
Finish(pl, res, infl, lg) ==
    LET resp == [t |-> IF MultiStatement(operation) THEN "arr" ELSE "obj", list |-> res]
        recs == OutputRecords(variant, resp, i)
    IN  /\ plan' = pl
        /\ results' = res
        /\ responseData' = resp
        /\ returnData' = returnData \o recs
        /\ i' = i + 1
        /\ pc' = "loop"
        /\ inflight' = infl
        /\ log' = Append(lg, Event("append", i, Len(recs), NoError, NoStmt))
        /\ UNCHANGED <<k, thrown>>

Submit(pl, kk, res, infl, lg) ==
    /\ plan' = pl
    /\ k' = kk
    /\ results' = res
    /\ inflight' = infl \cup {<<i, pos>> : pos \in SubmitNow(pl, kk)}
    /\ log' = Append(lg, Event("submit", i, kk, NoError, pl[kk]))
    /\ pc' = "await"
    /\ UNCHANGED <<i, responseData, returnData, thrown>>

\* the item's loop over its statements, resumed at entry kk
Walk(pl, kk, res, infl, lg) ==
    IF kk > Len(pl) THEN Finish(pl, res, infl, lg)
    ELSE IF EntryInvalid(variant, operation, pl[kk])
    THEN Catch(NodeOperationError("validation", <<"SQL query cannot be empty">>),
               kk, pl, infl, lg)
    ELSE Submit(pl, kk, res, infl, lg)

Init ==
    /\ variant \in {"two", "eight"}
    /\ operation \in OperationsOf(variant)
    /\ continueOnFail \in BOOLEAN
    /\ credentialsOk \in BOOLEAN
    /\ items \in ItemsFor(operation)
    /\ \E profile \in ClientProfiles :
          /\ clientResult = profile[1]
          /\ clientError = profile[2]
    /\ pc = "start"
    /\ i = 0
    /\ params = DefaultParams
    /\ plan = <<>>
    /\ k = 0
    /\ results = <<>>
    /\ responseData = [t |-> "undef", list |-> <<>>]
    /\ returnData = <<>>
    /\ output = <<>>
    /\ thrown = <<>>
    /\ inflight = {}
    /\ log = <<>>

\* eight: the client is created once, before the loop, and missing
\* credentials make execute throw; two: nothing happens before the loop
Setup ==
    /\ pc = "start"
    /\ IF variant = "eight" /\ ~credentialsOk
       THEN /\ pc' = "thrown"
            /\ thrown' = <<NodeOperationError("credentials",
                              <<"Database URL and auth token are required">>)>>
       ELSE /\ pc' = "loop"
            /\ thrown' = thrown
    /\ UNCHANGED <<inputs, i, params, plan, k, results, responseData, returnData,
                   output, inflight, log>>

\* one iteration of  for (let i = 0; i < items.length; i++)  up to its first await
ItemStart ==
    /\ pc = "loop"
    /\ i < Len(items)
    /\ \E p \in ParamSet(operation, items) :
          LET prep == IF variant = "two" THEN Prepare2(operation, p, credentialsOk)
                      ELSE Prepare8(operation, p, items)
          IN  /\ params' = p
              /\ IF prep.err # <<>>
                 THEN Catch(prep.err[1], 0, <<>>, inflight, log)
                 ELSE Walk(prep.plan, 1, <<>>, inflight, log)
    /\ UNCHANGED <<inputs, output>>

\* the awaited statement resolves: normalise, then go on with the item
ClientResolve ==
    /\ pc = "await"
    /\ Walk(plan, k + 1, Append(results, Reshape(variant, operation, clientResult)),
            inflight \ {<<i, k>>}, Append(log, Event("resolve", i, k, NoError, NoStmt)))
    /\ UNCHANGED <<inputs, params, output>>

\* the awaited statement rejects
ClientReject ==
    /\ pc = "await"
    /\ Catch(RejectionError(variant, operation, plan[k].sql, clientError), k, plan,
             inflight \ {<<i, k>>}, Append(log, Event("reject", i, k, NoError, NoStmt)))
    /\ UNCHANGED <<inputs, params, output>>

\* return [returnData]
Return ==
    /\ pc = "loop"
    /\ i = Len(items)
    /\ pc' = "done"
    /\ output' = <<returnData>>
    /\ UNCHANGED <<inputs, i, params, plan, k, results, responseData, returnData,
                   thrown, inflight, log>>

Next == Setup \/ ItemStart \/ ClientResolve \/ ClientReject \/ Return

Spec == Init /\ [][Next]_vars

TypeOK ==
    /\ pc \in {"start", "loop", "await", "done", "thrown"}
    /\ i \in 0..Len(items)
    /\ Len(items) \in 1..MaxItems

\* ------------------------------------------------- reading the history
\* the work item the variables params and plan belong to (-1: none yet)
CurItem == IF pc = "await" \/ (pc = "thrown" /\ log # <<>>) THEN i ELSE i - 1

Is(n, e) == log[n].e = e
Of(n, e, item) == log[n].e = e /\ log[n].item = item
Idx(e, item) == {n \in 1..Len(log) : Of(n, e, item)}
Failed(item) == Idx("fail", item) # {}
FailedWith(item, cause) == \E n \in Idx("fail", item) : log[n].err.cause = cause
\* the item's processing is over
Settled(item) == item >= 0 /\ (item < CurItem \/ (item = CurItem /\ pc # "await"))
\* positions of the item's submitted statements, in the order of submission
RECURSIVE SubmittedFrom(_, _)
SubmittedFrom(item, n) ==
    IF n > Len(log) THEN <<>>
    ELSE IF Of(n, "submit", item) THEN <<log[n]>> \o SubmittedFrom(item, n + 1)
    ELSE SubmittedFrom(item, n + 1)
Submitted(item) == SubmittedFrom(item, 1)
RecordsOf(item) == {r \in 1..Len(returnData) : returnData[r].src = item}

\* ------------------------------------------------------------------ claims

\* C1: in the eight-operation node, when the processing of a work item ends
\* in a validation error, no statement of that work item was submitted to
\* the client before the error was raised.
C1_NoSubmitBeforeValidationError ==
    variant = "eight" =>
        \A n \in 1..Len(log) :
            (Is(n, "fail") /\ log[n].err.cause = "validation") =>
                \A m \in 1..(n - 1) : ~Of(m, "submit", log[n].item)

\* the work item at hand is an insertRows item with manually entered values
ManualInsert ==
    /\ variant = "eight" /\ operation = "insertRows" /\ CurItem >= 0
    /\ params.dataSource = "manualInput"
    /\ ~IsBlank(params.table) /\ Len(params.columns) >= 1

\* values r*k .. r*k+k-1 (rows counted from 0) of the values entered
ExpectedRow(r, kc) == [c \in 1..kc |-> params.values[(r - 1) * kc + c].value]

\* C2 as stated: with k columns and n manual values, n >= 0, the statements
\* are built if and only if n mod k = 0, and then exactly n/k INSERT
\* statements are submitted, the r-th carrying values r*k .. r*k+k-1.
C2_BuildsIffMultiple ==
    ManualInsert =>
        LET n == Len(params.values)
            kc == Len(params.columns)
            sub == Submitted(CurItem)
        IN  /\ ~FailedWith(CurItem, "validation") <=> (n % kc = 0)
            /\ (n % kc = 0 /\ Settled(CurItem)) =>
                  /\ Len(sub) = n \div kc
                  /\ \A r \in 1..Len(sub) : sub[r].stmt.args = ExpectedRow(r, kc)

\* C2 amended: the statements are built if and only if n >= 1 and
\* n mod k = 0; then exactly n/k INSERT statements are built, the r-th
\* carrying values r*k .. r*k+k-1 in their original order, and they are
\* submitted in that order, all n/k of them unless the client rejects one.
C2_BuildsIffPositiveMultiple ==
    ManualInsert =>
        LET n == Len(params.values)
            kc == Len(params.columns)
            sub == Submitted(CurItem)
        IN  /\ ~FailedWith(CurItem, "validation") <=> (n >= 1 /\ n % kc = 0)
            /\ ~FailedWith(CurItem, "validation") =>
                  /\ Len(plan) = n \div kc
                  /\ \A r \in 1..Len(plan) :
                        /\ Head(plan[r].sql) = "INSERT INTO "
                        /\ plan[r].args = ExpectedRow(r, kc)
                  /\ Len(sub) <= Len(plan)
                  /\ \A r \in 1..Len(sub) : sub[r].pos = r /\ sub[r].stmt = plan[r]
                  /\ (Settled(CurItem) /\ ~Failed(CurItem)) => Len(sub) = n \div kc

C2_Witness ==
    /\ ManualInsert
    /\ Settled(CurItem) /\ ~Failed(CurItem)
    /\ Len(plan) >= 2
    /\ Len(Submitted(CurItem)) = Len(plan)

\* the statements the parameters of the work item at hand call for
OwnPlan ==
    IF variant = "two" THEN Prepare2(operation, params, credentialsOk).plan
    ELSE Prepare8(operation, params, items).plan

\* C3: with continue-on-failure on, a failing work item gets an error record
\* appended in place of a result, execute does not throw, and every later
\* work item is still processed, from its first statement on, exactly as its
\* own parameters call for.
C3_ContinueOnFailure ==
    continueOnFail =>
        /\ pc = "thrown" => (log = <<>> /\ thrown[1].cause = "credentials")
        /\ \A n \in 1..Len(log) :
              Is(n, "fail") =>
                  /\ n < Len(log) /\ Of(n + 1, "append", log[n].item)
                  /\ Cardinality(RecordsOf(log[n].item)) = 1
                  /\ \A r \in RecordsOf(log[n].item) :
                        /\ returnData[r].kind = "error"
                        /\ returnData[r].json.error = log[n].err.message
        /\ pc = "done" => \A j \in 0..(Len(items) - 1) : Idx("append", j) # {}
        /\ CurItem >= 0 =>
              LET sub == Submitted(CurItem)
                  own == OwnPlan
              IN  /\ Len(sub) <= Len(own)
                  /\ \A r \in 1..Len(sub) : sub[r].pos = r /\ sub[r].stmt = own[r]
                  /\ (Settled(CurItem) /\ ~Failed(CurItem)) =>
                        /\ Len(sub) = Len(own)
                        /\ \A r \in RecordsOf(CurItem) : returnData[r].kind = "result"
                        /\ variant = "eight" =>
                              \A r \in RecordsOf(CurItem) :
                                  Len(returnData[r].json.list) = Len(own)

C3_Witness ==
    /\ continueOnFail /\ pc = "done"
    /\ \E a \in 0..(Len(items) - 1) :
          /\ Failed(a)
          /\ \E b \in (a + 1)..(Len(items) - 1) : ~Failed(b) /\ Idx("submit", b) # {}

\* C4: with continue-on-failure off, when a work item fails execute throws
\* that very error, nothing happens afterwards (no statement of a later work
\* item is submitted) and no output is returned.
C4_FailFast ==
    ~continueOnFail =>
        \A n \in 1..Len(log) :
            Is(n, "fail") =>
                /\ n = Len(log)
                /\ pc = "thrown"
                /\ thrown = <<log[n].err>>
                /\ output = <<>>
                /\ inflight = {}
                /\ \A m \in 1..Len(log) : log[m].item <= log[n].item

C4_Witness ==
    /\ ~continueOnFail /\ pc = "thrown"
    /\ Failed(CurItem)
    /\ CurItem + 1 < Len(items)
    /\ Idx("submit", CurItem) # {}

\* C5: in the eight-operation node, when execute returns normally the output
\* holds exactly one record per input work item and the k-th record belongs
\* to the k-th work item.
C5_OneRecordPerItem ==
    variant = "eight" =>
        /\ pc \in {"loop", "await", "done"} => Len(returnData) = i
        /\ pc = "done" =>
              /\ Len(output[1]) = Len(items)
              /\ \A r \in 1..Len(output[1]) : output[1][r].src = r - 1

C5_Witness ==
    /\ variant = "eight" /\ pc = "done" /\ Len(items) >= 2
    /\ MultiStatement(operation)
    /\ \E r \in 1..Len(output[1]) :
          output[1][r].kind = "result" /\ Len(output[1][r].json.list) >= 2

\* C6: every record appended to the output, a result record or an error
\* record, carries as paired item the index of the work item that produced it.
C6_Provenance ==
    \A r \in 1..Len(returnData) : returnData[r].pairedItem = returnData[r].src

\* C7: at most one statement is in flight; the statements of a work item are
\* submitted in list / row order, each right after the previous one
\* resolved; no statement is submitted twice and nothing of a work item is
\* submitted once one of its statements was rejected.
C7_OneAtATime ==
    /\ Cardinality(inflight) <= 1
    /\ (inflight # {}) <=> (pc = "await")
    /\ \A n \in 1..Len(log) :
          Is(n, "submit") =>
              /\ \/ log[n].pos = 1
                 \/ /\ n > 1
                    /\ Of(n - 1, "resolve", log[n].item)
                    /\ log[n - 1].pos = log[n].pos - 1
              /\ \A m \in 1..(n - 1) :
                    Of(m, "submit", log[n].item) => log[m].pos # log[n].pos
    /\ \A n \in 1..Len(log) :
          Is(n, "reject") =>
              \A m \in (n + 1)..Len(log) : ~Of(m, "submit", log[n].item)
    /\ CurItem >= 0 =>
          LET sub == Submitted(CurItem)
          IN  \A r \in 1..Len(sub) :
                  /\ sub[r].stmt = plan[r]
                  /\ operation = "executeBatch" => sub[r].stmt.sql = params.queries[r].query
                  /\ (operation \in {"insertRows", "updateRows"}
                        /\ params.dataSource = "manualInput") =>
                        sub[r].stmt.args[1] =
                            params.values[(r - 1) * Len(params.columns) + 1].value

C7_Witness ==
    \E n \in 1..Len(log) :
        /\ Is(n, "reject") /\ log[n].pos >= 2
        /\ \E m \in (n + 1)..Len(log) : Is(m, "submit")

\* C8: work items are processed in input order and to completion: when a
\* statement of item j is submitted, every item before j has nothing left to
\* do and its output has been appended (one record in the eight-operation
\* node).
C8_ItemsInOrder ==
    /\ \A n \in 1..(Len(log) - 1) : log[n].item <= log[n + 1].item
    /\ \A n \in 1..Len(log) :
          Is(n, "submit") =>
              \A a \in 0..(log[n].item - 1) :
                  \E m \in 1..(n - 1) :
                      /\ Of(m, "append", a)
                      /\ variant = "eight" => log[m].pos = 1
                      /\ log[m + 1].item # a

C8_Witness ==
    \E n \in 1..Len(log) :
        /\ Is(n, "submit") /\ log[n].item >= 1
        /\ Cardinality(Idx("submit", 0)) >= 2

\* C9: in executeBatch, once the j-th entry of a work item fails, no entry
\* after j is submitted, the work item yields no result record (only the
\* error record, in continue-on-failure mode), and the only statements ever
\* submitted for it are its own entries up to j.
C9_BatchAborts ==
    operation = "executeBatch" =>
        /\ \A n \in 1..Len(log) :
              Is(n, "fail") =>
                  /\ \A m \in 1..Len(log) :
                        Of(m, "submit", log[n].item) =>
                            /\ m < n
                            /\ log[m].pos <= log[n].pos
                            /\ log[n].err.cause = "validation" => log[m].pos < log[n].pos
                  /\ \A r \in RecordsOf(log[n].item) : returnData[r].kind = "error"
                  /\ Cardinality(RecordsOf(log[n].item)) = IF continueOnFail THEN 1 ELSE 0
        /\ CurItem >= 0 =>
              LET sub == Submitted(CurItem)
              IN  \A r \in 1..Len(sub) :
                      /\ sub[r].pos = r
                      /\ sub[r].stmt.sql = params.queries[r].query

C9_Witness ==
    /\ operation = "executeBatch" /\ continueOnFail
    /\ \E n \in 1..Len(log) :
          /\ Is(n, "fail") /\ log[n].pos = 2 /\ log[n].err.cause = "client"
          /\ log[n].item = CurItem
          /\ Cardinality(Idx("resolve", CurItem)) = 1

\* the records of the input items in the order the item loop reads them
RECURSIVE RecordsIn(_, _)
RecordsIn(its, itemsPath) ==
    IF its = <<>> THEN <<>>
    ELSE RowData(Head(its), itemsPath).recs \o RecordsIn(Tail(its), itemsPath)

\* C10: every statement an updateRows work item submits has
\* columns.length + whereArgs.length arguments: the row's column values in
\* selected-column order, then the where-clause arguments in their order,
\* for the manual and for the input-items data source.
C10_UpdateArgs ==
    (variant = "eight" /\ operation = "updateRows" /\ CurItem >= 0) =>
        LET sub == Submitted(CurItem)
            cols == params.columns
            w == params.whereParams
            recs == RecordsIn(items, params.itemsPath)
        IN  \A r \in 1..Len(sub) :
                LET a == sub[r].stmt.args
                IN  /\ Len(a) = Len(cols) + Len(w)
                    /\ \A c \in 1..Len(cols) :
                          a[c] = IF params.dataSource = "manualInput"
                                 THEN params.values[(r - 1) * Len(cols) + c].value
                                 ELSE Get(recs[r], cols[c])
                    /\ \A x \in 1..Len(w) : a[Len(cols) + x] = w[x].value

C10_Witness ==
    /\ variant = "eight" /\ operation = "updateRows" /\ CurItem >= 1
    /\ params.dataSource = "inputItems"
    /\ Len(params.whereParams) >= 2
    /\ Len(Submitted(CurItem)) >= 2

\* the number of positional placeholders in a SQL text
Placeholders(sql) == Cardinality({t \in 1..Len(sql) : sql[t] = "?"})

\* C11: every statement submitted by insertRows, updateRows, deleteRows,
\* selectRows, executeQuery and executeBatch has exactly as many "?"
\* placeholders in its SQL text as it has positional arguments.
C11_PlaceholdersMatchArgs ==
    operation \in {"insertRows", "updateRows", "deleteRows", "selectRows",
                   "executeQuery", "executeBatch"} =>
        \A n \in 1..Len(log) :
            Is(n, "submit") => Placeholders(log[n].stmt.sql) = Len(log[n].stmt.args)

\* C12: an executeBatch work item whose query list is empty fails with a
\* validation error and submits no statement to the client.
C12_EmptyBatchFails ==
    (operation = "executeBatch" /\ credentialsOk /\ CurItem >= 0
        /\ params.queries = <<>>) =>
        /\ Idx("submit", CurItem) = {}
        /\ Settled(CurItem) => FailedWith(CurItem, "validation")

\* C13: in both nodes, an executeQuery work item whose query is empty or
\* whitespace-only fails with a validation error without submitting a
\* statement; otherwise exactly one statement is submitted, whose SQL is the
\* user text unchanged and whose arguments are the parameter values in the
\* order given.
C13_ExecuteQuery ==
    (operation = "executeQuery" /\ credentialsOk /\ CurItem >= 0) =>
        LET sub == Submitted(CurItem)
        IN  IF IsBlank(params.query)
            THEN /\ sub = <<>>
                 /\ Settled(CurItem) => FailedWith(CurItem, "validation")
            ELSE /\ Len(sub) = 1
                 /\ sub[1].stmt.sql = params.query
                 /\ sub[1].stmt.args = MapValue(params.queryParams)

\* C14: for selectRows with useLimit set, a statement is submitted only when
\* limit is a positive integer and offset a non-negative integer; any other
\* limit or offset makes the work item fail with a validation error instead
\* of producing a statement.
C14_LimitOffsetValidated ==
    (operation = "selectRows" /\ CurItem >= 0 /\ params.useLimit
        /\ ~(params.limit > 0 /\ params.offset >= 0)) =>
        /\ Submitted(CurItem) = <<>>
        /\ Settled(CurItem) => FailedWith(CurItem, "validation")

\* C15: a selectRows statement containing an ORDER BY clause is submitted
\* only when the order-by column is one of the known columns of the table
\* and the direction is exactly ASC or DESC.
C15_OrderByAllowList ==
    operation = "selectRows" =>
        \A n \in 1..Len(log) :
            Is(n, "submit") =>
                LET sql == log[n].stmt.sql
                IN  \A t \in 1..Len(sql) :
                        sql[t] = " ORDER BY " =>
                            /\ Len(sql) >= t + 3
                            /\ sql[t + 1] \in KnownColumns
                            /\ sql[t + 2] = " "
                            /\ sql[t + 3] \in {"ASC", "DESC"}

\* the letters, digits and underscore among the characters of the table names
IdentifierChars == {"t", "_", "1"}
IsIdentifier(name) == name # <<>> /\ \A c \in 1..Len(name) : name[c] \in IdentifierChars

\* C16: describeTable submits its introspection statement only when the table
\* name consists solely of identifier characters; any other table name is
\* rejected with a validation error and never reaches a statement.
C16_DescribeTableIdentifier ==
    (operation = "describeTable" /\ CurItem >= 0 /\ ~IsIdentifier(params.table)) =>
        /\ Submitted(CurItem) = <<>>
        /\ Settled(CurItem) => FailedWith(CurItem, "validation")

\* String.prototype.includes over token texts
Includes(text, part) ==
    \E t \in 0..(Len(text) - Len(part)) : SubSeq(text, t + 1, t + Len(part)) = part

\* C17: every failure raised by the client while a statement is executing is
\* re-raised as a node error whose message names the operation (and, for
\* executeBatch, the statement text); it never becomes a normal result and
\* the statement is not submitted again.
C17_ClientFailureWrapped ==
    \A n \in 1..Len(log) :
        Is(n, "reject") =>
            /\ n > 1 /\ n < Len(log)
            /\ Of(n + 1, "fail", log[n].item)
            /\ log[n + 1].err.type = "NodeOperationError"
            /\ Includes(log[n + 1].err.message,
                        OpLabel(operation, log[n - 1].stmt.sql))
            /\ operation = "executeBatch" =>
                  Includes(log[n + 1].err.message, log[n - 1].stmt.sql)
            /\ \A r \in RecordsOf(log[n].item) : returnData[r].kind = "error"
            /\ \A m \in (n + 1)..Len(log) :
                  ~(Of(m, "submit", log[n].item) /\ log[m].pos = log[n].pos)

\* ------------------------------------------------- the normalizer by itself
\* Raw results with every combination of present and absent fields; column
\* descriptors are plain strings or objects with a name field.
ColumnForms ==
    {[t |-> "string", s |-> n] : n \in {"id", "name"}}
    \cup {[t |-> "object", name |-> n] : n \in {"id", "name"}}

RECURSIVE ListsUpTo(_, _)
ListsUpTo(S, n) ==
    IF n = 0 THEN {<<>>}
    ELSE LET shorter == ListsUpTo(S, n - 1)
         IN  shorter \cup {Append(q, e) : q \in {r \in shorter : Len(r) = n - 1}, e \in S}

Optional(S) == {<<>>} \cup {<<v>> : v \in S}

AllRawResults ==
    [columns : Optional(ListsUpTo(ColumnForms, MaxColumns)),
     rows : Optional({<<>>, <<[name |-> "t"]>>, <<[name |-> "t"], [name |-> "u"]>>}),
     rowsAffected : Optional({0, 1}),
     lastInsertRowid : Optional({"7"})]

\* a ProcessedResult read as a client result: columns and rows are present,
\* the columns are plain strings
AsRaw(processed) ==
    [columns |-> << [c \in 1..Len(processed.columns) |->
                       [t |-> "string", s |-> processed.columns[c]]] >>,
     rows |-> <<processed.rows>>,
     rowsAffected |-> processed.rowsAffected,
     lastInsertRowid |-> processed.lastInsertRowid]

NormInit ==
    /\ clientResult \in AllRawResults
    /\ pc = "raw"
    /\ results = <<>>
    /\ variant = "eight"
    /\ operation = "executeQuery"
    /\ continueOnFail = FALSE
    /\ credentialsOk = TRUE
    /\ items = <<PlainItem>>
    /\ clientError = NoError
    /\ i = 0
    /\ params = DefaultParams
    /\ plan = <<>>
    /\ k = 0
    /\ responseData = [t |-> "undef", list |-> <<>>]
    /\ returnData = <<>>
    /\ output = <<>>
    /\ thrown = <<>>
    /\ inflight = {}
    /\ log = <<>>

\* the normalizer applied to the raw result
NormalizeResult ==
    /\ pc = "raw"
    /\ results' = <<ProcessedResult(clientResult)>>
    /\ pc' = "normalized"
    /\ UNCHANGED <<inputs, i, params, plan, k, responseData, returnData, output,
                   thrown, inflight, log>>

\* the normalizer applied to its own output
NormalizeAgain ==
    /\ pc = "normalized"
    /\ results' = Append(results, ProcessedResult(AsRaw(results[1])))
    /\ pc' = "renormalized"
    /\ UNCHANGED <<inputs, i, params, plan, k, responseData, returnData, output,
                   thrown, inflight, log>>

NormNext == NormalizeResult \/ NormalizeAgain

NormSpec == NormInit /\ [][NormNext]_vars

\* C18: result normalization is total and idempotent: whatever fields of the
\* raw result are present, the result's columns are the flat ordered names
\* (empty when columns is absent), its rows are the given rows (empty when
\* absent), and normalizing the normalized result changes nothing.
C18_NormalizerTotalIdempotent ==
    /\ pc \in {"normalized", "renormalized"} =>
          LET raw == clientResult
              out == results[1]
          IN  /\ IF raw.columns = <<>> THEN out.columns = <<>>
                 ELSE /\ Len(out.columns) = Len(raw.columns[1])
                      /\ \A c \in 1..Len(out.columns) :
                            out.columns[c] = IF raw.columns[1][c].t = "string"
                                             THEN raw.columns[1][c].s
                                             ELSE raw.columns[1][c].name
              /\ out.rows = IF raw.rows = <<>> THEN <<>> ELSE raw.rows[1]
              /\ out.rowsAffected = raw.rowsAffected
              /\ out.lastInsertRowid = raw.lastInsertRowid
    /\ pc = "renormalized" => results[2] = results[1]

C18_Witness ==
    /\ pc = "renormalized"
    /\ clientResult.rows = <<>>
    /\ clientResult.columns # <<>>
    /\ \E c, e \in 1..Len(results[2].columns) :
          /\ clientResult.columns[1][c].t = "string"
          /\ clientResult.columns[1][e].t = "object"

\* the text between SELECT and the first FROM of a select statement
ColumnClause(sql) ==
    LET from == CHOOSE t \in 1..Len(sql) :
                    sql[t] = " FROM " /\ \A u \in 1..(t - 1) : sql[u] # " FROM "
    IN  SubSeq(sql, 2, from - 1)

NoColumnMessage == <<"At least one column must be selected">>

\* C19: in selectRows with the select-all-columns flag set the column clause
\* of the submitted statement is exactly "*" whatever the column list holds,
\* and an empty list raises no error; with the flag clear an empty list fails
\* with a validation error and a non-empty one is joined with ", ".
C19_ColumnClause ==
    (operation = "selectRows" /\ CurItem >= 0 /\ ~IsBlank(params.table)) =>
        LET sub == Submitted(CurItem)
            cols == params.columns
        IN  /\ \A r \in 1..Len(sub) :
                  /\ sub[r].stmt.sql[1] = "SELECT "
                  /\ \E t \in 1..Len(sub[r].stmt.sql) : sub[r].stmt.sql[t] = " FROM "
            /\ params.selectAllColumns =>
                  /\ \A r \in 1..Len(sub) : ColumnClause(sub[r].stmt.sql) = <<"*">>
                  /\ \A n \in Idx("fail", CurItem) : log[n].err.message # NoColumnMessage
            /\ (~params.selectAllColumns /\ cols = <<>>) =>
                  /\ sub = <<>>
                  /\ Settled(CurItem) =>
                        \E n \in Idx("fail", CurItem) :
                            /\ log[n].err.cause = "validation"
                            /\ log[n].err.message = NoColumnMessage
            /\ (~params.selectAllColumns /\ cols # <<>>) =>
                  /\ \A r \in 1..Len(sub) :
                        LET clause == ColumnClause(sub[r].stmt.sql)
                        IN  /\ Len(clause) = 3 * Len(cols) - 2
                            /\ \A c \in 1..Len(cols) : clause[3 * c - 2] = cols[c]
                            /\ \A c \in 1..(Len(cols) - 1) :
                                  clause[3 * c - 1] = "," /\ clause[3 * c] = " "
                  /\ \A n \in Idx("fail", CurItem) : log[n].err.message # NoColumnMessage

C19_Witness ==
    /\ operation = "selectRows" /\ CurItem >= 1
    /\ params.selectAllColumns /\ params.columns # <<>>
    /\ Submitted(CurItem) # <<>>
    /\ \E n \in 1..Len(log) :
          /\ Of(n, "submit", 0)
          /\ Len(ColumnClause(log[n].stmt.sql)) = 4

\* the positions of a keyword token in a SQL text
Positions(sql, keyword) == {t \in 1..Len(sql) : sql[t] = keyword}

\* C20: in the statement built by selectRows a LIMIT clause is present iff
\* useLimit is set, an OFFSET clause iff useLimit is set and offset > 0, the
\* optional clauses appear in the order WHERE, ORDER BY, LIMIT, OFFSET, and
\* the arguments are the where-arguments only (none without a where-clause).
C20_SelectClauses ==
    (operation = "selectRows" /\ CurItem >= 0) =>
        LET sub == Submitted(CurItem)
        IN  \A r \in 1..Len(sub) :
                LET sql == sub[r].stmt.sql
                    where == Positions(sql, " WHERE ")
                    order == Positions(sql, " ORDER BY ")
                    limit == Positions(sql, " LIMIT ")
                    offset == Positions(sql, " OFFSET ")
                IN  /\ (limit # {}) <=> params.useLimit
                    /\ (offset # {}) <=> (params.useLimit /\ params.offset > 0)
                    /\ (where # {}) <=> params.useWhere
                    /\ (order # {}) <=> params.useOrderBy
                    /\ \A c \in {where, order, limit, offset} : Cardinality(c) <= 1
                    /\ \A a \in where : \A b \in order \cup limit \cup offset : a < b
                    /\ \A a \in order : \A b \in limit \cup offset : a < b
                    /\ \A a \in limit : \A b \in offset : a < b
                    /\ \A a \in limit : sql[a + 1] = ToString(params.limit)
                    /\ \A a \in offset :
                          a + 1 = Len(sql) /\ sql[a + 1] = ToString(params.offset)
                    /\ sub[r].stmt.args =
                          IF params.useWhere
                          THEN [x \in 1..Len(params.whereParamsSelect) |->
                                   params.whereParamsSelect[x].value]
                          ELSE <<>>

C20_Witness ==
    /\ operation = "selectRows" /\ CurItem >= 1
    /\ params.useWhere /\ params.useOrderBy /\ params.useLimit /\ params.offset > 0
    /\ Submitted(CurItem) # <<>>
    /\ \E n \in 1..Len(log) :
          /\ Of(n, "submit", 0)
          /\ Positions(log[n].stmt.sql, " LIMIT ") # {}
          /\ Positions(log[n].stmt.sql, " OFFSET ") = {}

\* an empty or whitespace-only text
AllWhitespace(text) == \A t \in 1..Len(text) : text[t] = " "

\* C21: a deleteRows work item submits exactly one statement
\* DELETE FROM <table> WHERE <whereClause> whose arguments are the
\* where-arguments in order, and no statement at all when the table name or
\* the where-clause is empty or whitespace-only: a DELETE without WHERE is
\* never sent.
C21_DeleteRows ==
    operation = "deleteRows" =>
        /\ CurItem >= 0 =>
              LET sub == Submitted(CurItem)
                  w == params.whereParams
              IN  IF AllWhitespace(params.table) \/ AllWhitespace(params.whereClause)
                  THEN /\ sub = <<>>
                       /\ Settled(CurItem) => FailedWith(CurItem, "validation")
                  ELSE /\ Len(sub) = 1
                       /\ sub[1].stmt.sql = <<"DELETE FROM ">> \o params.table
                                               \o <<" WHERE ">> \o params.whereClause
                       /\ Len(sub[1].stmt.args) = Len(w)
                       /\ \A x \in 1..Len(w) : sub[1].stmt.args[x] = w[x].value
        /\ \A n \in 1..Len(log) :
              Is(n, "submit") =>
                  \E t \in Positions(log[n].stmt.sql, " WHERE ") :
                      ~AllWhitespace(SubSeq(log[n].stmt.sql, t + 1, Len(log[n].stmt.sql)))

C21_Witness ==
    /\ operation = "deleteRows" /\ CurItem >= 1
    /\ Settled(CurItem) /\ ~Failed(CurItem)
    /\ Len(Submitted(CurItem)) = 1
    /\ Len(Submitted(CurItem)[1].stmt.args) = 2
    /\ Failed(0) /\ Idx("submit", 0) = {}

\* the number of rows an insertRows work item has: the manual values in
\* groups of one value per column, or the records read from the input
RowCount ==
    IF params.dataSource = "manualInput"
    THEN Len(params.values) \div Len(params.columns)
    ELSE Len(RecordsIn(items, params.itemsPath))

\* C22: within one insertRows work item one statement is submitted per row
\* (the r-th for the r-th row, all of them when no statement is rejected),
\* all statements have the same SQL text INSERT INTO <table> (<cols>)
\* VALUES (...) with exactly one placeholder per selected column, and every
\* argument list is as long as the list of selected columns, for both data
\* sources.
C22_InsertStatements ==
    (variant = "eight" /\ operation = "insertRows" /\ CurItem >= 0) =>
        LET sub == Submitted(CurItem)
            cols == params.columns
        IN  /\ sub # <<>> => Len(sub) <= RowCount
            /\ (sub # <<>> /\ Settled(CurItem) /\ ~Failed(CurItem)) => Len(sub) = RowCount
            /\ \A r \in 1..Len(sub) :
                  LET sql == sub[r].stmt.sql
                  IN  /\ sub[r].pos = r
                      /\ sql = sub[1].stmt.sql
                      /\ Len(sql) >= 5
                      /\ sql[1] = "INSERT INTO "
                      /\ SubSeq(sql, 2, 1 + Len(params.table)) = params.table
                      /\ Positions(sql, ") VALUES (") # {}
                      /\ \A v \in Positions(sql, ") VALUES (") :
                            /\ Positions(sql, "?") \subseteq (v + 1)..Len(sql)
                            /\ \A c \in 1..Len(cols) : \E t \in 1..(v - 1) : sql[t] = cols[c]
                      /\ Placeholders(sql) = Len(cols)
                      /\ Len(sub[r].stmt.args) = Len(cols)

C22_Witness ==
    /\ variant = "eight" /\ operation = "insertRows" /\ CurItem >= 1
    /\ params.dataSource = "inputItems" /\ Len(params.columns) = 2
    /\ Settled(CurItem) /\ ~Failed(CurItem)
    /\ Len(Submitted(CurItem)) >= 2
    /\ \E n \in 1..Len(log) : Of(n, "submit", 0) /\ log[n].stmt.args = <<"1", "2">>

\* the records of input item a under the item path of the work item at hand
OwnRecords(a) == RowData(items[a + 1], params.itemsPath).recs

\* C23: for insertRows and updateRows with the input-items data source, the
\* statements submitted while processing work item i are built only from the
\* records of input item i: a work item that does not fail submits one
\* statement per record of its own input item, so that over the invocation
\* every input record gives rise to exactly one statement.
C23_OwnRecordsOnly ==
    (variant = "eight" /\ operation \in {"insertRows", "updateRows"}
        /\ CurItem >= 0 /\ params.dataSource = "inputItems") =>
        LET sub == Submitted(CurItem)
            own == OwnRecords(CurItem)
        IN  /\ Len(sub) <= Len(own)
            /\ \A r \in 1..Len(sub) :
                  \A c \in 1..Len(params.columns) :
                      sub[r].stmt.args[c] = Get(own[r], params.columns[c])
            /\ (Settled(CurItem) /\ ~Failed(CurItem)) => Len(sub) = Len(own)

====
